---- MODULE Spec2Model ----
(***************************************************************************)
(* A model of the SOP-Learning-Modules scripts:                            *)
(*   scripts/extract_content.py  is_heading, split_paragraphs and          *)
(*                               build_sections (the section segmenter)    *)
(*   scripts/sync_modules.py     main (root PDFs -> slug folders, indexes) *)
(*                                                                         *)
(* Python strings are TLA+ strings; a character is a string of length 1.   *)
(* TLC evaluates Len, SubSeq and \o on strings.                            *)
(***************************************************************************)
EXTENDS Integers, Sequences, FiniteSets, TLC

(***************************************************************************)
(* Characters and the string methods the scripts use                       *)
(***************************************************************************)

Char(s, i) == SubSeq(s, i, i)

UPPER == "ABCDEFGHIJKLMNOPQRSTUVWXYZ"
LOWER == "abcdefghijklmnopqrstuvwxyz"
DIGITS == "0123456789"

CharsOf(s) == { Char(s, i) : i \in 1..Len(s) }

UpperChars == CharsOf(UPPER)
LowerChars == CharsOf(LOWER)
DigitChars == CharsOf(DIGITS)

\* the whitespace characters of str.strip, str.split and the regex class \s
\* that the modelled inputs contain
WS == { " ", "\t", "\n", "\r", "\f" }

\* the line boundaries of str.splitlines that the modelled inputs contain
\* ("\r\n" counts as one boundary)
LineBreaks == { "\n", "\r", "\f" }

isalpha(c) == c \in UpperChars \cup LowerChars
isupper(c) == c \in UpperChars
isdigit(c) == c \in DigitChars
isspace(c) == c \in WS
\* the regex class \w
isword(c) == isalpha(c) \/ isdigit(c) \/ c = "_"

IndexIn(c, s) == CHOOSE i \in 1..Len(s) : Char(s, i) = c

upper_char(c) == IF c \in LowerChars THEN Char(UPPER, IndexIn(c, LOWER)) ELSE c
lower_char(c) == IF c \in UpperChars THEN Char(LOWER, IndexIn(c, UPPER)) ELSE c

RECURSIVE MapChars(_, _, _)
MapChars(s, i, up) ==
  IF i > Len(s) THEN ""
  ELSE (IF up THEN upper_char(Char(s, i)) ELSE lower_char(Char(s, i)))
       \o MapChars(s, i + 1, up)

\* str.upper, str.lower, str.capitalize
upper(s) == MapChars(s, 1, TRUE)
lower(s) == MapChars(s, 1, FALSE)
capitalize(s) ==
  IF s = "" THEN "" ELSE upper_char(Char(s, 1)) \o lower(SubSeq(s, 2, Len(s)))

Blank(s) == \A i \in 1..Len(s) : isspace(Char(s, i))

SetMin(S) == CHOOSE m \in S : \A n \in S : m <= n
SetMax(S) == CHOOSE m \in S : \A n \in S : n <= m

\* str.lstrip, str.rstrip, str.strip (no argument: whitespace)
lstrip(s) ==
  IF Blank(s) THEN ""
  ELSE SubSeq(s, SetMin({ i \in 1..Len(s) : ~isspace(Char(s, i)) }), Len(s))
rstrip(s) ==
  IF Blank(s) THEN ""
  ELSE SubSeq(s, 1, SetMax({ i \in 1..Len(s) : ~isspace(Char(s, i)) }))
strip(s) == lstrip(rstrip(s))

\* w.rstrip(':')
rstrip_colon(w) ==
  IF \A i \in 1..Len(w) : Char(w, i) = ":" THEN ""
  ELSE SubSeq(w, 1, SetMax({ i \in 1..Len(w) : Char(w, i) # ":" }))

endswith_colon(w) == w # "" /\ Char(w, Len(w)) = ":"

\* re.sub(r"\s+", " ", s): every maximal run of whitespace becomes one space
RECURSIVE CollapseFrom(_, _)
CollapseFrom(s, i) ==
  IF i > Len(s) THEN ""
  ELSE (IF isspace(Char(s, i))
          THEN (IF i > 1 /\ isspace(Char(s, i - 1)) THEN "" ELSE " ")
          ELSE Char(s, i))
       \o CollapseFrom(s, i + 1)
collapse_ws(s) == CollapseFrom(s, 1)

\* the end of the run of characters satisfying the class that starts at i
\* (i - 1 when the run is empty)
RECURSIVE RunEnd(_, _, _)
RunEnd(s, i, cls) ==
  IF i <= Len(s) /\ Char(s, i) \in cls THEN RunEnd(s, i + 1, cls) ELSE i - 1

\* str.split(): the maximal runs of non-whitespace, in order
RECURSIVE SplitFrom(_, _)
SplitFrom(s, i) ==
  IF i > Len(s) THEN << >>
  ELSE IF isspace(Char(s, i)) THEN SplitFrom(s, i + 1)
  ELSE LET e == SetMin({ j \in i..Len(s) :
                           j = Len(s) \/ isspace(Char(s, j + 1)) })
       IN  << SubSeq(s, i, e) >> \o SplitFrom(s, e + 1)
split(s) == SplitFrom(s, 1)

\* str.splitlines(): cut at every line boundary, "\r\n" being one boundary;
\* a boundary at the very end opens no further line
RECURSIVE SplitLinesFrom(_, _)
SplitLinesFrom(s, i) ==
  IF i > Len(s) THEN << >>
  ELSE LET brk == { j \in i..Len(s) : Char(s, j) \in LineBreaks }
       IN  IF brk = {} THEN << SubSeq(s, i, Len(s)) >>
           ELSE LET b == SetMin(brk)
                    n == IF Char(s, b) = "\r" /\ b < Len(s) /\ Char(s, b + 1) = "\n"
                           THEN b + 2 ELSE b + 1
                IN  << SubSeq(s, i, b - 1) >> \o SplitLinesFrom(s, n)
splitlines(s) == SplitLinesFrom(s, 1)

\* sep.join(parts)
RECURSIVE join(_, _)
join(sep, parts) ==
  IF parts = << >> THEN ""
  ELSE IF Len(parts) = 1 THEN parts[1]
  ELSE parts[1] \o sep \o join(sep, Tail(parts))

(***************************************************************************)
(* extract_content.py: is_heading                                          *)
(***************************************************************************)

HEADING_MAX_LEN == 90

\* acronyms whose capitalization the heading clean-up preserves
ACRONYMS == { "HIPAA", "HMIS", "PSH", "HUD" }

\* the largest number of words of a title-case heading
TITLE_MAX_WORDS == 12

\* int(0.6 * n); the float product truncates to (6 * n) \div 10 for every
\* word count the title-case rule admits
int_06(n) == (6 * n) \div 10

max(a, b) == IF a >= b THEN a ELSE b

letters(s) == { i \in 1..Len(s) : isalpha(Char(s, i)) }

AllCapsRule_nolimit(s) ==
  /\ letters(s) # {}
  /\ \A i \in letters(s) : isupper(Char(s, i))

\* letters and len(s) <= HEADING_MAX_LEN and all(c.isupper() for c in letters)
AllCapsRule(s) ==
  /\ letters(s) # {}
  /\ Len(s) <= HEADING_MAX_LEN
  /\ \A i \in letters(s) : isupper(Char(s, i))

\* position i starts \s+\S
SpaceThenText(s, i) ==
  LET e == RunEnd(s, i, WS) IN e >= i /\ e < Len(s)

\* re.match(r"^(\d+|[IVXLC]+|[A-Z])([.)])\s+\S", s): the numeral is a whole run
\* of digits, a whole run of roman-numeral letters, or one capital letter
EnumeratedRule(s) ==
  \E k \in { RunEnd(s, 1, DigitChars),
             RunEnd(s, 1, CharsOf("IVXLC")),
             IF s # "" /\ isupper(Char(s, 1)) THEN 1 ELSE 0 } \ { 0 } :
     /\ k + 1 <= Len(s)
     /\ Char(s, k + 1) \in { ".", ")" }
     /\ SpaceThenText(s, k + 2)

\* the end of (?:\.\d+)* started after position e
RECURSIVE DottedEnd(_, _)
DottedEnd(s, e) ==
  IF e + 2 <= Len(s) /\ Char(s, e + 1) = "." /\ isdigit(Char(s, e + 2))
    THEN DottedEnd(s, RunEnd(s, e + 2, DigitChars))
    ELSE e

DecimalRule_nodots(s) ==
  LET d == RunEnd(s, 1, DigitChars)
  IN  d >= 1 /\ SpaceThenText(s, d + 1)

\* re.match(r"^\d+(?:\.\d+)*\s+\S", s)
DecimalRule(s) ==
  LET d == RunEnd(s, 1, DigitChars)
  IN  d >= 1 /\ SpaceThenText(s, DottedEnd(s, d) + 1)

\* sum(1 for w in words if re.match(r"^[A-Z]", w))
CapsCount(words) ==
  Cardinality({ i \in 1..Len(words) : isupper(Char(words[i], 1)) })

\* 1 <= len(words) <= 12 and caps >= max(2, int(0.6 * len(words)))
TitleCaseRule(s) ==
  LET words == split(s)
  IN  /\ 1 <= Len(words) /\ Len(words) <= TITLE_MAX_WORDS
      /\ CapsCount(words) >= max(2, int_06(Len(words)))

is_heading(line) ==
  LET s == strip(line)
  IN  /\ s # ""
      /\ \/ AllCapsRule(s)
         \/ EnumeratedRule(s)
         \/ DecimalRule(s)
         \/ TitleCaseRule(s)

(***************************************************************************)
(* extract_content.py: split_paragraphs                                    *)
(***************************************************************************)

\* the matches of r"\n\s*\n+" in s, leftmost first, as <<first, last>> pairs:
\* a match starts at a "\n" whose following whitespace holds another "\n" and
\* runs to the last "\n" of that whitespace run
RECURSIVE BlankRunsFrom(_, _)
BlankRunsFrom(s, i) ==
  LET starts == { j \in i..Len(s) :
                    /\ Char(s, j) = "\n"
                    /\ \E k \in (j + 1)..RunEnd(s, j, WS) : Char(s, k) = "\n" }
  IN  IF starts = {} THEN << >>
      ELSE LET b == SetMin(starts)
               e == SetMax({ k \in b..RunEnd(s, b, WS) : Char(s, k) = "\n" })
           IN  << <<b, e>> >> \o BlankRunsFrom(s, e + 1)

\* re.split(r"\n\s*\n+", s): the pieces between the matches
RECURSIVE PiecesFrom(_, _, _)
PiecesFrom(s, i, runs) ==
  IF runs = << >> THEN << SubSeq(s, i, Len(s)) >>
  ELSE << SubSeq(s, i, runs[1][1] - 1) >> \o PiecesFrom(s, runs[1][2] + 1, Tail(runs))
re_split_blank(s) == PiecesFrom(s, 1, BlankRunsFrom(s, 1))

StripEach(lines) == [ i \in 1..Len(lines) |-> strip(lines[i]) ]

paragraph_of_nocollapse(b) == strip(join(" ", StripEach(splitlines(b))))

\* re.sub(r"\s+", " ", " ".join(lines)).strip() of one piece
paragraph_of(b) == strip(collapse_ws(join(" ", StripEach(splitlines(b)))))

NonEmpty(p) == p # ""

split_paragraphs(text) ==
  LET blocks == re_split_blank(strip(text))
  IN  SelectSeq([ i \in 1..Len(blocks) |-> paragraph_of(blocks[i]) ], NonEmpty)

(***************************************************************************)
(* extract_content.py: the heading clean-up of build_sections              *)
(***************************************************************************)

\* re.search(r"\b<word>:\b", h) for a word of letters: the word and its colon,
\* not preceded by a word character and followed by one
SearchCrumb(h, word) ==
  LET pat == word \o ":"
      n   == Len(pat)
  IN  \E i \in 1..(Len(h) - n) :
         /\ SubSeq(h, i, i + n - 1) = pat
         /\ (i = 1 \/ ~isword(Char(h, i - 1)))
         /\ isword(Char(h, i + n))

\* re.search(r"\bPrevious:\b", h) and re.search(r"\bNext:\b", h)
is_nav_crumb(h) == SearchCrumb(h, "Previous") /\ SearchCrumb(h, "Next")

\* s starts, at position i, with word in any letter case
IMatchAt(s, i, word) ==
  /\ i + Len(word) - 1 <= Len(s)
  /\ lower(SubSeq(s, i, i + Len(word) - 1)) = word

\* r"\s*\|\s*Last\s+Revision.*$" with re.I matches from position i (headings
\* hold no line break, so .*$ runs to the end)
RevisionAt(h, i) ==
  LET bar == RunEnd(h, i, WS) + 1
      l   == RunEnd(h, bar + 1, WS) + 1
      gap == RunEnd(h, l + 4, WS)
  IN  /\ bar <= Len(h) /\ Char(h, bar) = "|"
      /\ IMatchAt(h, l, "last")
      /\ gap >= l + 4
      /\ IMatchAt(h, gap + 1, "revision")

\* re.sub(r"\s*\|\s*Last\s+Revision.*$", "", h, flags=re.I)
strip_revision(h) ==
  LET at == { i \in 1..Len(h) : RevisionAt(h, i) }
  IN  IF at = {} THEN h ELSE SubSeq(h, 1, SetMin(at) - 1)

\* re.fullmatch(r"FY\d{2,4}", up)
is_fy(up) ==
  /\ Len(up) \in 4..6
  /\ SubSeq(up, 1, 2) = "FY"
  /\ \A i \in 3..Len(up) : isdigit(Char(up, i))

\* one word of the title-casing loop
norm_word(w) ==
  LET bare == rstrip_colon(w)
      up   == upper(bare)
      nw   == IF is_fy(up) \/ up \in ACRONYMS THEN up ELSE capitalize(bare)
  IN  IF endswith_colon(w) THEN nw \o ":" ELSE nw

NormWords(words) == [ i \in 1..Len(words) |-> norm_word(words[i]) ]

normalize_heading_asis(h) == h

\* the heading written back for a section that is kept: h is heading.strip()
normalize_heading(h) ==
  strip(collapse_ws(join(" ", NormWords(split(strip_revision(h))))))

(***************************************************************************)
(* The section segmenter as a state machine: build_sections                *)
(***************************************************************************)

VARIABLES
  text,             \* the argument of build_sections
  pc,               \* "start", "fold", "clean", "done" or "raised"
  blocks,           \* the raw blocks: a sequence of sequences of lines
  bi,               \* the index of the block the fold loop takes next
  kinds,            \* per folded block, the branch of line 204 it took
  sections,         \* the list being built; a section is [heading, paragraphs]
  current_section,  \* the section the fold is filling
  si,               \* the index of the section the clean-up loop takes next
  cleaned_sections, \* the list the clean-up loop builds
  result            \* the returned list

segVars == << text, pc, blocks, bi, kinds, sections, current_section, si,
              cleaned_sections, result >>

\* the state of sync_modules.py: the repository root and main's locals
VARIABLES
  rootFiles,    \* the regular files of ROOT: name |-> content
  dirFiles,     \* the directories of ROOT: name |-> (file name |-> content)
  stamp_index,  \* args.stamp_index
  spc,          \* "idle", "start", "move", "index", "done" or "raised"
  entries,      \* the sorted listing the running loop iterates over
  ei,           \* the index of the entry the loop takes next
  modules,      \* the list of module names step 2 collects
  runs          \* how many times main has been started

syncVars == << rootFiles, dirFiles, stamp_index, spc, entries, ei, modules, runs >>

\* the state of generate_module_content.py: one call of process_slug
VARIABLES
  sections_json,  \* <slug>/content/sections.json: "missing", "empty" or "filled"
  offline,        \* the --offline flag
  api_ready,      \* the openai package and OPENAI_API_KEY are there
  gpc,            \* "idle", "start", "call", "validate", "done", "SystemExit"
                  \* or "TypeError"
  ni,             \* the index of the output name the loop is at
  response,       \* the text call_openai returned
  calls,          \* the names call_openai has been called for
  data_files,     \* <slug>/data: output name |-> text of <name>.json
  prompt_files    \* <slug>/prompts: output name |-> text of <name>.txt

genVars == << sections_json, offline, api_ready, gpc, ni, response, calls,
              data_files, prompt_files >>

\* an Optional[str]: None is the empty tuple, a string s is <<s>>
None == << >>
Some(s) == << s >>

\* Python truth of an Optional[str] and of a list
Truthy(h) == h # None /\ h[1] # ""

Section(h, ps) == [ heading |-> h, paragraphs |-> ps ]

HasContent_always(s) == TRUE

\* current_section["heading"] or current_section["paragraphs"]
HasContent(s) == Truthy(s.heading) \/ s.paragraphs # << >>

close_section_prepend(secs, cur) ==
  IF HasContent(cur) THEN << cur >> \o secs ELSE secs

\* lines 206-207 and 219-220: the section is appended if it holds anything
close_section(secs, cur) ==
  IF HasContent(cur) THEN Append(secs, cur) ELSE secs

RStripEach(lines) == [ i \in 1..Len(lines) |-> rstrip(lines[i]) ]

RECURSIVE GroupFrom_noguard(_, _, _)
GroupFrom_noguard(lines, i, current) ==
  IF i > Len(lines) THEN << current >>
  ELSE IF strip(lines[i]) = ""
    THEN << current >> \o GroupFrom_noguard(lines, i + 1, << >>)
    ELSE GroupFrom_noguard(lines, i + 1, Append(current, lines[i]))

\* the grouping loop: a blank line closes the open block, if there is one
RECURSIVE GroupFrom(_, _, _)
GroupFrom(lines, i, current) ==
  IF i > Len(lines)
    THEN (IF current # << >> THEN << current >> ELSE << >>)
  ELSE IF strip(lines[i]) = ""
    THEN (IF current # << >> THEN << current >> ELSE << >>)
         \o GroupFrom(lines, i + 1, << >>)
    ELSE GroupFrom(lines, i + 1, Append(current, lines[i]))

group_blocks_noguard(s) == GroupFrom_noguard(RStripEach(splitlines(s)), 1, << >>)

\* lines 185-197
group_blocks(s) == GroupFrom(RStripEach(splitlines(s)), 1, << >>)

\* where control stands: before line 185, in and past the loop of line 202,
\* in and past the loop of line 224
AtEntry == pc = "start"
InFold == pc = "fold" /\ bi <= Len(blocks)
FoldOver == pc = "fold" /\ bi > Len(blocks)
InClean == pc = "clean" /\ si <= Len(sections)
CleanOver == pc = "clean" /\ si > Len(sections)

\* lines 185-200: split the text into blocks, open the empty first section
Group ==
  /\ AtEntry
  /\ UNCHANGED << syncVars, genVars >>
  /\ blocks' = group_blocks(text)
  /\ bi' = 1
  /\ sections' = << >>
  /\ current_section' = Section(None, << >>)
  /\ pc' = "fold"
  /\ UNCHANGED << text, kinds, si, cleaned_sections, result >>

start_section_heading_only(block, first) ==
  Section(Some(collapse_ws(first)), << >>)

\* lines 205-211: the block opens a section
start_section(block, first) ==
  Section(Some(collapse_ws(first)), split_paragraphs(join("\n", Tail(block))))

continue_section_always(cur, block) ==
  Section(Some("Introduction"),
          cur.paragraphs \o split_paragraphs(join("\n", block)))

continue_section_prepend(cur, block) ==
  Section(IF Truthy(cur.heading) THEN cur.heading ELSE Some("Introduction"),
          split_paragraphs(join("\n", block)) \o cur.paragraphs)

\* lines 213-217: the block continues the current section
continue_section(cur, block) ==
  Section(IF Truthy(cur.heading) THEN cur.heading ELSE Some("Introduction"),
          cur.paragraphs \o split_paragraphs(join("\n", block)))

\* lines 202-217: one iteration of the fold over the blocks; block[0] of an
\* empty block raises IndexError
FoldBlock ==
  /\ InFold
  /\ UNCHANGED << syncVars, genVars >>
  /\ LET block == blocks[bi]
     IN  IF block = << >>
           THEN /\ pc' = "raised"
                /\ UNCHANGED << bi, kinds, sections, current_section >>
           ELSE LET first == strip(block[1])
                IN  /\ pc' = pc
                    /\ bi' = bi + 1
                    /\ IF is_heading(first)
                         THEN /\ kinds' = Append(kinds, "heading")
                              /\ sections' = close_section(sections, current_section)
                              /\ current_section' = start_section(block, first)
                         ELSE /\ kinds' = Append(kinds, "continuation")
                              /\ sections' = sections
                              /\ current_section' =
                                   continue_section(current_section, block)
  /\ UNCHANGED << text, blocks, si, cleaned_sections, result >>

\* lines 219-223: the end of the fold closes the last section
CloseFold ==
  /\ FoldOver
  /\ UNCHANGED << syncVars, genVars >>
  /\ sections' = close_section(sections, current_section)
  /\ cleaned_sections' = << >>
  /\ si' = 1
  /\ pc' = "clean"
  /\ UNCHANGED << text, blocks, bi, kinds, current_section, result >>

clean_section_raw(s) ==
  IF Truthy(s.heading) /\ is_nav_crumb(strip(s.heading[1])) THEN None ELSE Some(s)

\* lines 225-247 for one section: None when the section is skipped, else the
\* section with the heading written back
clean_section(s) ==
  IF Truthy(s.heading)
    THEN LET h == strip(s.heading[1])
         IN  IF is_nav_crumb(h) THEN None
             ELSE Some([ s EXCEPT !.heading = Some(normalize_heading(h)) ])
    ELSE Some(s)

\* lines 224-249: one iteration of the clean-up loop. The loop rewrites the
\* heading in the section object itself, which the list sections (and, for the
\* last section, current_section) still holds.
CleanSection ==
  /\ InClean
  /\ UNCHANGED << syncVars, genVars >>
  /\ LET c == clean_section(sections[si])
     IN  IF c = None
           THEN UNCHANGED << sections, current_section, cleaned_sections >>
           ELSE /\ sections' = [ sections EXCEPT ![si] = c[1] ]
                /\ current_section' =
                     IF si = Len(sections) THEN c[1] ELSE current_section
                /\ cleaned_sections' =
                     IF HasContent(c[1]) THEN Append(cleaned_sections, c[1])
                                         ELSE cleaned_sections
  /\ si' = si + 1
  /\ UNCHANGED << text, pc, blocks, bi, kinds, result >>

\* lines 250-251
Return ==
  /\ CleanOver
  /\ UNCHANGED << syncVars, genVars >>
  /\ sections' = cleaned_sections
  /\ result' = cleaned_sections
  /\ pc' = "done"
  /\ UNCHANGED << text, blocks, bi, kinds, current_section, si, cleaned_sections >>

(***************************************************************************)
(* sync_modules.py: titles and slugs                                       *)
(***************************************************************************)

\* directories that are never modules
EXCLUDE_DIRS ==
  { "CE_Learning_Module", "FCS-Provider-Game", "fcs-study-tool",
    ".git", ".github", ".vscode", "scripts" }

\* KNOWN_TYPO_FIXES, as <<typo, fix>> pairs
KNOWN_TYPO_FIXES == { << "coporate", "corporate" >>, << "fince", "finance" >> }

\* the acronyms display_title_from_title keeps in capitals
SYNC_ACRONYMS == { "HIPAA", "HMIS" }

\* Path(name).stem and Path(name).suffix: the suffix starts at the last dot,
\* unless that dot is the first or the last character
LastDot(name) ==
  LET dots == { i \in 1..Len(name) : Char(name, i) = "." }
  IN  IF dots = {} THEN 0 ELSE SetMax(dots)
HasSuffix(name) == 1 < LastDot(name) /\ LastDot(name) < Len(name)
\* a suffix that is everything from the last dot on, also for a name that
\* starts with its only dot
suffix_from_any_dot(name) ==
  IF LastDot(name) > 0 THEN SubSeq(name, LastDot(name), Len(name)) ELSE ""
stem(name) == IF HasSuffix(name) THEN SubSeq(name, 1, LastDot(name) - 1) ELSE name
suffix(name) ==
  IF HasSuffix(name) THEN SubSeq(name, LastDot(name), Len(name)) ELSE ""

\* s.replace(c, r) for a character c
RECURSIVE ReplaceFrom(_, _, _, _)
ReplaceFrom(s, i, c, r) ==
  IF i > Len(s) THEN ""
  ELSE (IF Char(s, i) = c THEN r ELSE Char(s, i)) \o ReplaceFrom(s, i + 1, c, r)
replace(s, c, r) == ReplaceFrom(s, 1, c, r)

\* re.sub of every maximal run of characters satisfying the class by r
RECURSIVE SubRunsFrom(_, _, _, _)
SubRunsFrom(s, i, cls, r) ==
  IF i > Len(s) THEN ""
  ELSE IF Char(s, i) \in cls
    THEN r \o SubRunsFrom(s, RunEnd(s, i, cls) + 1, cls, r)
    ELSE Char(s, i) \o SubRunsFrom(s, i + 1, cls, r)
sub_runs(s, cls, r) == SubRunsFrom(s, 1, cls, r)

\* s.strip(c) for a character c
strip_char(s, c) ==
  LET keep == { i \in 1..Len(s) : Char(s, i) # c }
  IN  IF keep = {} THEN "" ELSE SubSeq(s, SetMin(keep), SetMax(keep))

\* the three replacements both functions start with
spell_symbols(s) == replace(replace(replace(s, "&", " and "), "+", " and "), "@", " at ")

\* the fix of a word that is a known typo in lower case, else the word
fix_word(w) ==
  IF \E f \in KNOWN_TYPO_FIXES : f[1] = lower(w)
    THEN (CHOOSE f \in KNOWN_TYPO_FIXES : f[1] = lower(w))[2]
    ELSE w

FixWords(words) == [ i \in 1..Len(words) |-> fix_word(words[i]) ]

\* lines 40-57; s.split(' ') of the collapsed, stripped title has the words
\* of split(), or the one word "" when the title is empty
clean_title_from_filename(name) ==
  LET s == strip(collapse_ws(sub_runs(spell_symbols(stem(name)), { "-", "_" }, " ")))
  IN  join(" ", FixWords(split(s)))

\* re.sub(rf'\b{k}\b', v, s): k between word boundaries becomes v
RECURSIVE SubWordFrom(_, _, _, _)
SubWordFrom(s, i, k, v) ==
  IF i > Len(s) THEN ""
  ELSE IF /\ i + Len(k) - 1 <= Len(s)
          /\ SubSeq(s, i, i + Len(k) - 1) = k
          /\ (i = 1 \/ ~isword(Char(s, i - 1)))
          /\ (i + Len(k) > Len(s) \/ ~isword(Char(s, i + Len(k))))
    THEN v \o SubWordFrom(s, i + Len(k), k, v)
    ELSE Char(s, i) \o SubWordFrom(s, i + 1, k, v)
sub_word(s, k, v) == SubWordFrom(s, 1, k, v)

\* the loop over KNOWN_TYPO_FIXES (no fix produces the other typo)
fix_typos(s) == sub_word(sub_word(s, "coporate", "corporate"), "fince", "finance")

SlugChars == LowerChars \cup DigitChars

\* every character that [^a-z0-9] matches in s
NonSlugChars(s) == CharsOf(s) \ SlugChars

\* lines 59-69
slugify(title) ==
  LET s == fix_typos(spell_symbols(lower(title)))
  IN  strip_char(sub_runs(sub_runs(s, NonSlugChars(s), "-"), { "-" }, "-"), "-")

\* one word of display_title_from_title
display_word(w) ==
  IF is_fy(upper(w)) \/ upper(w) \in SYNC_ACRONYMS THEN upper(w) ELSE capitalize(w)

DisplayWords(words) == [ i \in 1..Len(words) |-> display_word(words[i]) ]

\* lines 71-82
display_title_from_title(raw) == join(" ", DisplayWords(split(raw)))

\* the order of characters that str comparison uses, for the characters of the
\* modelled file names
CharOrder == " &+-.0123456789@ABCDEFGHIJKLMNOPQRSTUVWXYZ_abcdefghijklmnopqrstuvwxyz"

\* a < b as Python compares strings: at the first position where they differ,
\* a has ended or has the smaller character
StrLess(a, b) ==
  \E i \in 1..Len(b) :
     /\ i <= Len(a) + 1
     /\ SubSeq(a, 1, i - 1) = SubSeq(b, 1, i - 1)
     /\ \/ i = Len(a) + 1
        \/ IndexIn(Char(a, i), CharOrder) < IndexIn(Char(b, i), CharOrder)

\* sorted(names): the i-th element has i - 1 smaller ones
sorted(names) ==
  [ i \in 1..Cardinality(names) |->
      CHOOSE x \in names : Cardinality({ y \in names : StrLess(y, x) }) = i - 1 ]

(***************************************************************************)
(* sync_modules.py: the pages it writes                                    *)
(***************************************************************************)

\* lines 84-112: the placeholder page carries the title twice
build_placeholder_html(title) ==
  "<title>" \o title \o " | Learning Module</title>"
    \o "<h1>Future site of " \o title \o " Learning Module</h1>"

\* lines 172-185: the shared bootstrap page, the same for every module
bootstrap_index_html == "<title>Learning Module</title><div id=\"app\"></div>"

\* one card of the root index, line 118
card(s) == "<a class=\"card\" href=\"./" \o s \o "/\"><div class=\"slug\">" \o s \o "</div></a>"

Cards(slugs) == [ i \in 1..Len(slugs) |-> card(slugs[i]) ]

Range(list) == { list[i] : i \in 1..Len(list) }

\* lines 114-170: the cards of the sorted slugs, one per line, in the page
build_root_index(slugs) ==
  "<main class=\"grid\">\n" \o join("\n", Cards(sorted(Range(slugs)))) \o "\n</main>\n"

(***************************************************************************)
(* sync_modules.py: main as a state machine over the repository root       *)
(***************************************************************************)

\* a directory without files
NoFiles == << >>

\* path.write_text(content) and the arrival of a renamed file
write(files, name, content) ==
  [ n \in DOMAIN files \cup { name } |-> IF n = name THEN content ELSE files[n] ]

\* the files left when name is renamed away
remove(files, name) == [ n \in DOMAIN files \ { name } |-> files[n] ]

\* ROOT.iterdir(): the names of the files and directories of ROOT
iterdir == DOMAIN rootFiles \cup DOMAIN dirFiles

\* the files of ROOT / slug; ROOT / "" is ROOT itself
FilesOf(slug) ==
  IF slug = "" THEN rootFiles
  ELSE IF slug \in DOMAIN dirFiles THEN dirFiles[slug] ELSE NoFiles

exists_never(slug, name) == FALSE

\* (ROOT / slug / name).exists()
exists(slug, name) ==
  \/ name \in DOMAIN FilesOf(slug)
  \/ slug = "" /\ name \in DOMAIN dirFiles

\* assets_css.exists() and assets_js.exists()
assets_exist == exists("assets", "module.css") /\ exists("assets", "module.js")

\* line 205
is_root_pdf(name) == name \in DOMAIN rootFiles /\ lower(suffix(name)) = ".pdf"

\* lines 187-193
is_module_dir(d) ==
  /\ d \in DOMAIN dirFiles
  /\ ~ (d \in EXCLUDE_DIRS \/ (d # "" /\ Char(d, 1) = "."))
  /\ (d \o ".pdf") \in DOMAIN dirFiles[d]

\* lines 218-236: the page main writes to a module's index.html; None when it
\* keeps the page that is there
index_to_write(d) ==
  IF stamp_index \/ ~ exists(d, "index.html")
    THEN IF assets_exist
           THEN Some(bootstrap_index_html)
           ELSE Some(build_placeholder_html(
                       display_title_from_title(clean_title_from_filename(d))))
    ELSE None

MaxRuns == 2

\* line 203: the for statement of step 1 lists ROOT once, sorted
ListForMove ==
  /\ spc = "start"
  /\ entries' = sorted(iterdir)
  /\ ei' = 1
  /\ spc' = "move"
  /\ UNCHANGED << rootFiles, dirFiles, stamp_index, modules, runs >>
  /\ UNCHANGED << segVars, genVars >>

\* lines 204-212: one entry of step 1
MovePdf ==
  /\ spc = "move"
  /\ ei <= Len(entries)
  /\ LET name == entries[ei]
         slug == slugify(clean_title_from_filename(name))
         target == slug \o ".pdf"
     IN  IF ~ is_root_pdf(name)
           THEN /\ UNCHANGED << rootFiles, dirFiles, spc >>
                /\ ei' = ei + 1
         ELSE IF slug # "" /\ slug \notin DOMAIN dirFiles /\ slug \in DOMAIN rootFiles
           THEN \* mkdir finds a regular file of that name: FileExistsError
                /\ spc' = "raised"
                /\ UNCHANGED << rootFiles, dirFiles, ei >>
         ELSE IF exists(slug, target)
           THEN \* the directory is there and the target too: nothing moves
                /\ ei' = ei + 1
                /\ UNCHANGED << rootFiles, dirFiles, spc >>
         ELSE IF slug = ""
           THEN \* the target is ROOT / ".pdf"
                /\ rootFiles' = write(remove(rootFiles, name), target, rootFiles[name])
                /\ ei' = ei + 1
                /\ UNCHANGED << dirFiles, spc >>
           ELSE /\ rootFiles' = remove(rootFiles, name)
                /\ dirFiles' = write(dirFiles, slug,
                                     write(FilesOf(slug), target, rootFiles[name]))
                /\ ei' = ei + 1
                /\ UNCHANGED spc
  /\ UNCHANGED << stamp_index, entries, modules, runs >>
  /\ UNCHANGED << segVars, genVars >>

\* lines 215-216: step 2 starts with no modules and lists ROOT again
ListForIndex ==
  /\ spc = "move"
  /\ ei > Len(entries)
  /\ modules' = << >>
  /\ entries' = sorted(iterdir)
  /\ ei' = 1
  /\ spc' = "index"
  /\ UNCHANGED << rootFiles, dirFiles, stamp_index, runs >>
  /\ UNCHANGED << segVars, genVars >>

\* lines 217-236: one entry of step 2
EnsureIndex ==
  /\ spc = "index"
  /\ ei <= Len(entries)
  /\ LET d == entries[ei]
     IN  IF is_module_dir(d)
           THEN /\ modules' = Append(modules, d)
                /\ dirFiles' =
                     IF index_to_write(d) = None THEN dirFiles
                     ELSE write(dirFiles, d,
                                write(dirFiles[d], "index.html", index_to_write(d)[1]))
           ELSE UNCHANGED << modules, dirFiles >>
  /\ ei' = ei + 1
  /\ UNCHANGED << rootFiles, stamp_index, spc, entries, runs >>
  /\ UNCHANGED << segVars, genVars >>

\* line 239: step 3 writes the root index and main returns
WriteRootIndex ==
  /\ spc = "index"
  /\ ei > Len(entries)
  /\ rootFiles' = write(rootFiles, "index.html", build_root_index(modules))
  /\ spc' = "done"
  /\ UNCHANGED << dirFiles, stamp_index, entries, ei, modules, runs >>
  /\ UNCHANGED << segVars, genVars >>

\* lines 241-242: the script is run again, with the same flag, on what the
\* run before it left
RunAgain ==
  /\ spc = "done"
  /\ runs < MaxRuns
  /\ runs' = runs + 1
  /\ spc' = "start"
  /\ entries' = << >>
  /\ ei' = 0
  /\ modules' = << >>
  /\ UNCHANGED << rootFiles, dirFiles, stamp_index >>
  /\ UNCHANGED << segVars, genVars >>

(***************************************************************************)
(* generate_module_content.py: json.loads, `in` and json.dumps             *)
(***************************************************************************)

\* the values json.loads builds: str, int, None/True/False, list and dict (a
\* dict as its <<key, value>> pairs in insertion order)
JString(x) == [ kind |-> "string", str |-> x ]
JNumber(x) == [ kind |-> "number", str |-> x ]
JLiteral(x) == [ kind |-> "literal", str |-> x ]
JArray(items) == [ kind |-> "array", items |-> items ]
JObject(members) == [ kind |-> "object", members |-> members ]

\* the result of a parsing step: JSONDecodeError, or a value and the position
\* after it
Failed == [ ok |-> FALSE ]
Parsed(v, next) == [ ok |-> TRUE, val |-> v, next |-> next ]

\* the whitespace of the json module
JSON_WS == { " ", "\t", "\n", "\r" }
skip_ws(s, i) == RunEnd(s, i, JSON_WS) + 1

StartsWith(s, i, w) == i + Len(w) - 1 <= Len(s) /\ SubSeq(s, i, i + Len(w) - 1) = w

\* a string from its opening quote at i to the next quote; a control character
\* inside it is an error (the modelled responses hold no backslash escape)
ParseString(s, i) ==
  LET close == { j \in (i + 1)..Len(s) : Char(s, j) = "\"" }
  IN  IF close = {} THEN Failed
      ELSE LET j == SetMin(close)
           IN  IF \E k \in (i + 1)..(j - 1) : Char(s, k) \in { "\n", "\t", "\r", "\f" }
                 THEN Failed
                 ELSE Parsed(SubSeq(s, i + 1, j - 1), j + 1)

\* an integer: an optional minus, then 0 or a run of digits that starts with
\* 1-9 (the modelled responses hold no fraction and no exponent)
ParseNumber(s, i) ==
  LET d == IF Char(s, i) = "-" THEN i + 1 ELSE i
      e == IF d <= Len(s) /\ Char(s, d) = "0" THEN d ELSE RunEnd(s, d, DigitChars)
  IN  IF e < d THEN Failed
      ELSE Parsed(JNumber(IF SubSeq(s, i, e) = "-0" THEN "0" ELSE SubSeq(s, i, e)), e + 1)

\* dict[k] = v: a key that is there keeps its place
put(members, k, v) ==
  IF \E i \in 1..Len(members) : members[i][1] = k
    THEN [ i \in 1..Len(members) |->
             IF members[i][1] = k THEN << k, v >> ELSE members[i] ]
    ELSE Append(members, << k, v >>)

RECURSIVE ParseValue(_, _)
RECURSIVE ParseMembers(_, _, _)
RECURSIVE ParseItems(_, _, _)

\* the members of an object from the key at i on, after the members acc
ParseMembers(s, i, acc) ==
  IF i > Len(s) \/ Char(s, i) # "\"" THEN Failed
  ELSE LET k == ParseString(s, i)
       IN  IF ~k.ok THEN Failed
           ELSE LET c == skip_ws(s, k.next)
                IN  IF c > Len(s) \/ Char(s, c) # ":" THEN Failed
                    ELSE LET v == ParseValue(s, skip_ws(s, c + 1))
                         IN  IF ~v.ok THEN Failed
                             ELSE LET e == skip_ws(s, v.next)
                                      acc2 == put(acc, k.val, v.val)
                                  IN  IF e > Len(s) THEN Failed
                                      ELSE IF Char(s, e) = "}"
                                        THEN Parsed(JObject(acc2), e + 1)
                                      ELSE IF Char(s, e) = ","
                                        THEN ParseMembers(s, skip_ws(s, e + 1), acc2)
                                      ELSE Failed

\* the items of an array from the value at i on, after the items acc
ParseItems(s, i, acc) ==
  LET v == ParseValue(s, i)
  IN  IF ~v.ok THEN Failed
      ELSE LET e == skip_ws(s, v.next)
               acc2 == Append(acc, v.val)
           IN  IF e > Len(s) THEN Failed
               ELSE IF Char(s, e) = "]" THEN Parsed(JArray(acc2), e + 1)
               ELSE IF Char(s, e) = "," THEN ParseItems(s, skip_ws(s, e + 1), acc2)
               ELSE Failed

\* the value that starts at i
ParseValue(s, i) ==
  IF i > Len(s) THEN Failed
  ELSE IF Char(s, i) = "\"" THEN
    LET r == ParseString(s, i)
    IN  IF r.ok THEN Parsed(JString(r.val), r.next) ELSE Failed
  ELSE IF Char(s, i) = "{" THEN
    LET j == skip_ws(s, i + 1)
    IN  IF j <= Len(s) /\ Char(s, j) = "}" THEN Parsed(JObject(<< >>), j + 1)
        ELSE ParseMembers(s, j, << >>)
  ELSE IF Char(s, i) = "[" THEN
    LET j == skip_ws(s, i + 1)
    IN  IF j <= Len(s) /\ Char(s, j) = "]" THEN Parsed(JArray(<< >>), j + 1)
        ELSE ParseItems(s, j, << >>)
  ELSE IF Char(s, i) \in DigitChars \cup { "-" } THEN ParseNumber(s, i)
  ELSE IF StartsWith(s, i, "null") THEN Parsed(JLiteral("null"), i + 4)
  ELSE IF StartsWith(s, i, "true") THEN Parsed(JLiteral("true"), i + 4)
  ELSE IF StartsWith(s, i, "false") THEN Parsed(JLiteral("false"), i + 5)
  ELSE Failed

\* line 147: json.loads(content); nothing but whitespace may surround the value
json_loads(content) ==
  LET r == ParseValue(content, skip_ws(content, 1))
  IN  IF r.ok /\ skip_ws(content, r.next) > Len(content) THEN r ELSE Failed

\* sub in s for two strings
is_substring(sub, s) ==
  \E i \in 1..(Len(s) - Len(sub) + 1) : SubSeq(s, i, i + Len(sub) - 1) = sub

\* lines 151-156: name in data is defined for a dict (a key), a list (an
\* item) and a str (a substring); for an int, None, True or False it raises
\* TypeError
in_defined(data) == data.kind \in { "object", "array", "string" }

in_data(name, data) ==
  IF data.kind = "object"
    THEN \E i \in 1..Len(data.members) : data.members[i][1] = name
  ELSE IF data.kind = "array"
    THEN \E i \in 1..Len(data.items) :
            data.items[i].kind = "string" /\ data.items[i].str = name
  ELSE is_substring(name, data.str)

RECURSIVE spaces(_)
spaces(n) == IF n <= 0 THEN "" ELSE " " \o spaces(n - 1)

\* json.dumps(data, indent=2, ensure_ascii=False) at nesting depth level
RECURSIVE dumps(_, _)
dumps(v, level) ==
  IF v.kind = "string" THEN "\"" \o v.str \o "\""
  ELSE IF v.kind \in { "number", "literal" } THEN v.str
  ELSE IF v.kind = "array" THEN
    IF v.items = << >> THEN "[]"
    ELSE "[\n"
         \o join(",\n", [ i \in 1..Len(v.items) |->
                            spaces(2 * (level + 1)) \o dumps(v.items[i], level + 1) ])
         \o "\n" \o spaces(2 * level) \o "]"
  ELSE
    IF v.members = << >> THEN "{}"
    ELSE "{\n"
         \o join(",\n", [ i \in 1..Len(v.members) |->
                            spaces(2 * (level + 1)) \o "\"" \o v.members[i][1] \o "\": "
                              \o dumps(v.members[i][2], level + 1) ])
         \o "\n" \o spaces(2 * level) \o "}"

\* lines 144-161: what validate_and_write(slug, name, content) does: it raises
\* SystemExit or TypeError, or writes the text to <slug>/data/<name>.json
validate_and_write(name, content) ==
  LET r == json_loads(content)
  IN  IF ~r.ok THEN [ outcome |-> "SystemExit" ]
      ELSE IF ~in_defined(r.val) THEN [ outcome |-> "TypeError" ]
      ELSE IF ~in_data(name, r.val) THEN [ outcome |-> "SystemExit" ]
      ELSE [ outcome |-> "written", text |-> dumps(r.val, 0) \o "\n" ]

(***************************************************************************)
(* generate_module_content.py: process_slug as a state machine             *)
(***************************************************************************)

\* line 197: the outputs, in the order of the loop
NAMES == << "questions", "terms", "scenarios" >>

\* lines 50-135: the prompt of an output asks for JSON with that top-level key
prompt_of(name) == "TASK: JSON with the following shape: {\"" \o name \o "\": [...]}"

\* lines 184-194: read_sections raises SystemExit when sections.json is
\* missing; no sections: the slug is skipped; offline: the three prompts are
\* written and process_slug returns; else the online loop starts
ReadSections ==
  /\ gpc = "start"
  /\ IF sections_json = "missing"
       THEN gpc' = "SystemExit" /\ UNCHANGED << ni, prompt_files >>
     ELSE IF sections_json = "empty"
       THEN gpc' = "done" /\ UNCHANGED << ni, prompt_files >>
     ELSE IF offline
       THEN /\ prompt_files' = [ n \in Range(NAMES) |-> prompt_of(n) ]
            /\ gpc' = "done"
            /\ UNCHANGED ni
       ELSE gpc' = "call" /\ ni' = 1 /\ UNCHANGED prompt_files
  /\ UNCHANGED << sections_json, offline, api_ready, response, calls, data_files >>
  /\ UNCHANGED << segVars, syncVars >>

\* the texts the model may answer with
ResponsePool ==
  { "{\"questions\": []}", "{\"terms\": [], \"n\": 3}", " {\"scenarios\" : [\"s_001\"]}\n",
    "{\"questions\": [], \"terms\": [], \"scenarios\": []}",
    "[\"questions\", \"terms\"]", "\"terms and scenarios\"",
    "{}", "7", "null", "", "Here is your JSON: {\"questions\": []}" }

\* line 198 (lines 163-182): call_openai for the name the loop is at; it
\* raises SystemExit without the package or the key, else returns a text
CallOpenAI ==
  /\ gpc = "call"
  /\ ni <= Len(NAMES)
  /\ calls' = Append(calls, NAMES[ni])
  /\ IF api_ready
       THEN /\ response' \in ResponsePool
            /\ gpc' = "validate"
       ELSE /\ gpc' = "SystemExit"
            /\ UNCHANGED response
  /\ UNCHANGED << sections_json, offline, api_ready, ni, data_files, prompt_files >>
  /\ UNCHANGED << segVars, syncVars >>

\* line 199 (lines 144-161): validate_and_write for the name the loop is at
ValidateAndWrite ==
  /\ gpc = "validate"
  /\ LET w == validate_and_write(NAMES[ni], response)
     IN  IF w.outcome = "written"
           THEN /\ data_files' = write(data_files, NAMES[ni], w.text)
                /\ ni' = ni + 1
                /\ gpc' = "call"
           ELSE /\ gpc' = w.outcome
                /\ UNCHANGED << data_files, ni >>
  /\ UNCHANGED << sections_json, offline, api_ready, response, calls, prompt_files >>
  /\ UNCHANGED << segVars, syncVars >>

\* line 197: the loop is over, process_slug returns
FinishSlug ==
  /\ gpc = "call"
  /\ ni > Len(NAMES)
  /\ gpc' = "done"
  /\ UNCHANGED << sections_json, offline, api_ready, ni, response, calls,
                  data_files, prompt_files >>
  /\ UNCHANGED << segVars, syncVars >>

(***************************************************************************)
(* The inputs of build_sections                                            *)
(***************************************************************************)

\* the largest number of blocks of a text assembled from BlockPool
MaxBlocks == 3
\* the largest number of words of a title-case probe line
MaxWords == 13
\* how far past HEADING_MAX_LEN the long probe lines reach
MaxOver == 2

\* blocks (lines joined by "\n") that exercise each branch of the segmenter
BlockPool ==
  { "ELIGIBILITY",
    "Some text here.",
    "1. Overview\nThis is the first section.",
    "2.1  HMIS  data:\tfy24 | Last  revision 3\nScope  and\t use ",
    "  the  quick \t brown fox \nJumps Over",
    "Previous:Intro Next:Scope\nback",
    "| Last Revision 2020" }

SeqsUpTo(S, n) == UNION { [ 1..k -> S ] : k \in 0..n }

PoolTexts == { join("\n\n", bs) : bs \in SeqsUpTo(BlockPool, MaxBlocks) }

\* texts of blank lines only, other line boundaries, ragged blank separators
EdgeTexts ==
  { "\n", " \n\t\n\n", "\f", "\r\n\r\n",
    "ELIGIBILITY\r\n\r\nSome text here.\r\n",
    "\n\nELIGIBILITY\n \t\n\n\nSome text here.\n\n",
    "Some text\fhere.\n \nELIGIBILITY  \nA. Scope\n\n\nmore",
    "Previous: Intro Next: Scope\nback\n\nELIGIBILITY",
    "Some text here.\nELIGIBILITY\n2.1 Definitions\n\nSCOPE\nA. Scope\nQuick Fox",
    "intro\n\nPrevious:Intro Next:Scope\n\nA) one\n\nB) two\n\n| last revision\n\nC) three\nbody" }

RECURSIVE Rep(_, _)
Rep(c, n) == IF n <= 0 THEN "" ELSE c \o Rep(c, n - 1)

RECURSIVE Words(_, _)
Words(w, n) == IF n <= 0 THEN << >> ELSE << w >> \o Words(w, n - 1)

\* lines of n words of which k start with a capital, capitals first or last
TitleLines ==
  { join(" ", Words("Quick", k) \o Words("fox", n - k)) :
      n \in 1..MaxWords, k \in 0..MaxWords } \cup
  { join(" ", Words("fox", n - k) \o Words("Quick", k)) :
      n \in 1..MaxWords, k \in 0..MaxWords }

\* lines around HEADING_MAX_LEN characters long whose letters are all capitals
\* (and one that is not): one word, two words, more words than a title has,
\* an enumerated one, one without letters
LongLines ==
  UNION { { Rep("A", n),
            "AB " \o Rep("C", n - 3),
            Rep("A ", TITLE_MAX_WORDS) \o Rep("B", n - 2 * TITLE_MAX_WORDS),
            "A. " \o Rep("B", n - 3),
            "12 " \o Rep("B", n - 3),
            Rep("-", n),
            "a" \o Rep("A", n - 1) } :
          n \in (HEADING_MAX_LEN - 1)..(HEADING_MAX_LEN + MaxOver) }

\* lines of the shape <numeral><delimiter><space><text>, well-formed or not
NumberedLines ==
  { num \o del \o sp \o txt :
      num \in { "1", "12", "IV", "A", "a", "AB", "iv", "2.1", "1.2.3", "1..2" },
      del \in { ".", ")", "" },
      sp  \in { " ", "", " \t" },
      txt \in { "overview", "Scope of  THINGS:", "Previous:a Next:b" } }

ProbeTexts ==
  TitleLines \cup LongLines \cup
  { l \o b : l \in NumberedLines \cup { "1. Overview" },
             b \in { "", "\nThis is the first section." } }

Texts == PoolTexts \cup EdgeTexts \cup ProbeTexts \cup { "" }

(***************************************************************************)
(* The specification of the segmenter                                      *)
(***************************************************************************)

\* sync_modules is not running
SyncIdle ==
  /\ rootFiles = << >>
  /\ dirFiles = << >>
  /\ stamp_index = FALSE
  /\ spc = "idle"
  /\ entries = << >>
  /\ ei = 0
  /\ modules = << >>
  /\ runs = 0

\* build_sections is not running
SegIdle ==
  /\ text = ""
  /\ pc = "idle"
  /\ blocks = << >>
  /\ bi = 0
  /\ kinds = << >>
  /\ sections = << >>
  /\ current_section = Section(None, << >>)
  /\ si = 0
  /\ cleaned_sections = << >>
  /\ result = << >>

SegInit ==
  /\ text \in Texts
  /\ pc = "start"
  /\ blocks = << >>
  /\ bi = 0
  /\ kinds = << >>
  /\ sections = << >>
  /\ current_section = Section(None, << >>)
  /\ si = 0
  /\ cleaned_sections = << >>
  /\ result = << >>

\* process_slug is not running
GenIdle ==
  /\ sections_json = "missing"
  /\ offline = FALSE
  /\ api_ready = FALSE
  /\ gpc = "idle"
  /\ ni = 0
  /\ response = ""
  /\ calls = << >>
  /\ data_files = << >>
  /\ prompt_files = << >>

vars == << segVars, syncVars, genVars >>

Init == SegInit /\ SyncIdle /\ GenIdle

Next ==
  \/ Group
  \/ FoldBlock
  \/ CloseFold
  \/ CleanSection
  \/ Return

Spec == Init /\ [][Next]_vars

(***************************************************************************)
(* The specification of sync_modules.main                                  *)
(***************************************************************************)

\* at most this many files lie in ROOT before the first run
MaxPdfs == 2

\* the names of the files that may lie in ROOT
NamePool ==
  { "A & B.pdf", "a-and-b.pdf", "_.pdf", "Fince_Policy.PDF", "Scripts.pdf",
    "hipaa-fy24.pdf", "README.pdf", "readme", "index.html" }

\* a file whose content is its own
Own(names) == [ n \in names |-> n ]

\* a file of a module that an earlier hand put there
Earlier(names) == [ n \in names |-> "earlier " \o n ]

\* what ROOT / "assets" and ROOT / "a-and-b" hold before the first run: a
\* directory is absent (None) or has these files
NoAssets == None
CssOnly == Some(Own({ "module.css" }))
CssAndJs == Some(Own({ "module.css", "module.js" }))
NoModule == None
EmptyModule == Some(NoFiles)
PdfOnly == Some(Earlier({ "a-and-b.pdf" }))
PdfAndIndex == Some(Earlier({ "a-and-b.pdf", "index.html" }))

LayoutPool ==
  { << NoAssets, NoModule >>, << NoAssets, EmptyModule >>, << NoAssets, PdfAndIndex >>,
    << CssOnly, PdfOnly >>, << CssAndJs, NoModule >>, << CssAndJs, PdfAndIndex >> }

\* the directories of ROOT: scripts is always there, it holds the script
RootDirs(assets, module) ==
  [ d \in { "scripts" } \cup (IF assets = None THEN {} ELSE { "assets" })
                       \cup (IF module = None THEN {} ELSE { "a-and-b" }) |->
      IF d = "scripts" THEN Own({ "sync_modules.py" })
      ELSE IF d = "assets" THEN assets[1] ELSE module[1] ]

SyncInit ==
  /\ \E names \in SUBSET NamePool :
       /\ Cardinality(names) <= MaxPdfs
       /\ rootFiles = Own(names)
  /\ \E layout \in LayoutPool : dirFiles = RootDirs(layout[1], layout[2])
  /\ stamp_index \in BOOLEAN
  /\ spc = "start"
  /\ entries = << >>
  /\ ei = 0
  /\ modules = << >>
  /\ runs = 1

SyncNext ==
  \/ ListForMove
  \/ MovePdf
  \/ ListForIndex
  \/ EnsureIndex
  \/ WriteRootIndex
  \/ RunAgain

SyncStart == SyncInit /\ SegIdle /\ GenIdle

SyncSpec == SyncStart /\ [][SyncNext]_vars

(***************************************************************************)
(* The specification of generate_module_content.process_slug               *)
(***************************************************************************)

\* what <slug>/data holds before the run: nothing, or the three outputs of an
\* earlier run
DataPool ==
  { NoFiles, [ n \in Range(NAMES) |-> "{\n  \"" \o n \o "\": []\n}\n" ] }

GenInit ==
  /\ sections_json \in { "missing", "empty", "filled" }
  /\ offline \in BOOLEAN
  /\ api_ready \in BOOLEAN
  /\ gpc = "start"
  /\ ni = 0
  /\ response = ""
  /\ calls = << >>
  /\ data_files \in DataPool
  /\ prompt_files = NoFiles

GenStart == GenInit /\ SegIdle /\ SyncIdle

GenNext ==
  \/ ReadSections
  \/ CallOpenAI
  \/ ValidateAndWrite
  \/ FinishSlug

GenSpec == GenStart /\ [][GenNext]_vars

(***************************************************************************)
(* What the claims speak of, read off the input blocks                     *)
(***************************************************************************)

FirstLine(b) == strip(b[1])

\* the fold has taken every block
Folded == pc \in { "clean", "done" }

RECURSIVE IndicesFrom(_, _)
IndicesFrom(i, kind) ==
  IF i > Len(kinds) THEN << >>
  ELSE (IF kinds[i] = kind THEN << i >> ELSE << >>) \o IndicesFrom(i + 1, kind)

\* the heading-start blocks, in source order
HeadingStarts == IndicesFrom(1, "heading")

\* the first block is a continuation block
LeadingProse == kinds # << >> /\ kinds[1] = "continuation"

\* the sections the fold opens, in source order, each named by the block that
\* opens it; 0 names the implicit section of leading prose
Opened == (IF LeadingProse THEN << 0 >> ELSE << >>) \o HeadingStarts

\* the heading the fold gives the j-th opened section
RawHeading(j) ==
  IF Opened[j] = 0 THEN "Introduction"
  ELSE collapse_ws(FirstLine(blocks[Opened[j]]))

\* the last block of the j-th opened section
LastBlock(j) == IF j < Len(Opened) THEN Opened[j + 1] - 1 ELSE Len(blocks)

\* the j-th opened section receives paragraph text: prose leads it, lines
\* follow its heading in the same block, or continuation blocks follow
HasBody(j) ==
  \/ Opened[j] = 0
  \/ Len(blocks[Opened[j]]) > 1
  \/ LastBlock(j) > Opened[j]

\* w is a word as the title-casing leaves it: an acronym or FY token in
\* capitals, else no lower-case first letter and no capital after it; at most
\* one colon at its end
TitleCased(w) ==
  LET bare == rstrip_colon(w)
  IN  /\ Len(w) - Len(bare) <= 1
      /\ IF upper(bare) \in ACRONYMS \/ is_fy(upper(bare))
            THEN bare = upper(bare)
            ELSE /\ bare = "" \/ Char(bare, 1) \notin LowerChars
                 /\ \A i \in 2..Len(bare) : Char(bare, i) \notin UpperChars

\* h is the heading raw after the clean-up: the words of raw before a trailing
\* "| Last Revision ...", each title-cased with its letters otherwise kept and
\* its trailing colons reduced to one, joined by single spaces
CleanedFrom(h, raw) ==
  LET ws == split(strip_revision(raw))
      hs == split(h)
  IN  /\ h = join(" ", hs)
      /\ Len(hs) = Len(ws)
      /\ \A i \in 1..Len(ws) :
            /\ TitleCased(hs[i])
            /\ lower(rstrip_colon(hs[i])) = lower(rstrip_colon(ws[i]))
            /\ endswith_colon(hs[i]) <=> endswith_colon(ws[i])

\* the letters and digits of a string, capitals as lower case
RECURSIVE Skeleton(_, _)
Skeleton(s, i) ==
  IF i > Len(s) THEN ""
  ELSE (IF isword(Char(s, i)) THEN lower_char(Char(s, i)) ELSE "")
       \o Skeleton(s, i + 1)

(***************************************************************************)
(* Claims                                                                  *)
(***************************************************************************)

NonEmptySection(s) ==
  \/ Truthy(s.heading)
  \/ /\ s.paragraphs # << >>
     /\ \A i \in 1..Len(s.paragraphs) : s.paragraphs[i] # ""

\* C1: every section build_sections returns has a non-empty heading or at
\* least one non-empty paragraph; so has every section the block fold leaves
\* for the clean-up pass, and every section the clean-up pass keeps.
C1_NoEmptySection ==
  /\ pc = "done" => \A i \in 1..Len(result) : NonEmptySection(result[i])
  /\ pc = "clean" => \A i \in si..Len(sections) : NonEmptySection(sections[i])
  /\ \A i \in 1..Len(cleaned_sections) : NonEmptySection(cleaned_sections[i])

\* C1 witness: a returned section whose heading the clean-up emptied and which
\* is kept for its paragraph, next to a text whose emptied section was dropped.
C1_Witness ==
  /\ pc = "done"
  /\ \E i \in 1..Len(result) :
        ~Truthy(result[i].heading) /\ result[i].paragraphs # << >>
  /\ Len(result) < Len(Opened)

\* the heading the clean-up writes for the j-th opened section
CleanHeading(j) == normalize_heading(strip(RawHeading(j)))

\* the clean-up drops the j-th opened section: its heading is a navigation
\* crumb, or is cleaned away while the section has no paragraph
Dropped(j) ==
  \/ is_nav_crumb(strip(RawHeading(j)))
  \/ CleanHeading(j) = "" /\ ~HasBody(j)

RECURSIVE KeptFrom(_)
KeptFrom(j) ==
  IF j > Len(Opened) THEN << >>
  ELSE (IF Dropped(j) THEN << >> ELSE << j >>) \o KeptFrom(j + 1)

\* the opened sections the clean-up keeps, in source order
Kept == KeptFrom(1)

\* C2 as stated: the heading of the Nth returned section is the (cleaned-up)
\* heading of the Nth heading-start block of the input.
C2_NthHeadingStart ==
  pc = "done" =>
    \A n \in 1..Len(result) :
       /\ n <= Len(HeadingStarts)
       /\ result[n].heading =
            Some(normalize_heading(collapse_ws(FirstLine(blocks[HeadingStarts[n]]))))

\* C2 amended: the returned sections are, in source order, the opened sections
\* that the clean-up keeps (the implicit "Introduction" section of leading
\* prose first, then one per heading-start block, less the navigation crumbs
\* and the sections left without heading and paragraph); the heading of the
\* Nth returned section is the cleaned-up heading of the Nth kept one.
C2_OrderOfKept ==
  pc = "done" =>
    /\ Len(result) = Len(Kept)
    /\ \A n \in 1..Len(result) : result[n].heading = Some(CleanHeading(Kept[n]))

\* C2 witness: leading prose, a dropped section before a kept one, and three
\* returned sections with different headings.
C2_Witness ==
  /\ pc = "done"
  /\ LeadingProse
  /\ Len(result) >= 3
  /\ \E n \in 1..Len(Kept) : Kept[n] > n
  /\ \A m, n \in 1..Len(result) : m # n => result[m].heading # result[n].heading

\* the all-caps example of the specification
ExampleAllCaps == "ELIGIBILITY\n\nSome text here."

\* C3 as stated: the heading of a returned section opened by a heading-start
\* block is that block's first line with whitespace runs collapsed and nothing
\* else changed; the example returns the heading "ELIGIBILITY".
C3_HeadingVerbatim ==
  pc = "done" =>
    /\ \A n \in 1..Len(result) :
          (n <= Len(Kept) /\ Opened[Kept[n]] # 0) =>
             result[n].heading = Some(RawHeading(Kept[n]))
    /\ text = ExampleAllCaps =>
          result = << Section(Some("ELIGIBILITY"), << "Some text here." >>) >>

\* C3 amended: the fold gives the section a heading-start block opens that
\* block's first line with whitespace runs collapsed to single spaces; the
\* returned heading is that heading cleaned up (a trailing "| Last Revision
\* ..." removed, every word title-cased, acronyms and FY tokens in capitals, a
\* word's trailing colons reduced to one), so letter case is not preserved;
\* the example returns one section, heading "Eligibility", paragraph
\* "Some text here.".
C3_HeadingCleaned ==
  /\ (pc = "fold" /\ bi > 1 /\ kinds[bi - 1] = "heading") =>
        current_section.heading = Some(join(" ", split(blocks[bi - 1][1])))
  /\ pc = "done" =>
        /\ \A n \in 1..Len(result) :
              (n <= Len(Kept) /\ Opened[Kept[n]] # 0) =>
                 /\ result[n].heading # None
                 /\ CleanedFrom(result[n].heading[1], RawHeading(Kept[n]))
        /\ text = ExampleAllCaps =>
              result = << Section(Some("Eligibility"), << "Some text here." >>) >>

\* C3 witness: the example has been segmented and its heading is no longer the
\* block's first line.
C3_Witness ==
  /\ pc = "done"
  /\ text = ExampleAllCaps
  /\ Len(result) = 1
  /\ Opened[Kept[1]] # 0
  /\ result[1].heading # Some(RawHeading(Kept[1]))

\* the first line of block i matches none of the all-caps, enumerated and
\* decimal-numbered rules
OnlyTitleCase(i) ==
  LET s == FirstLine(blocks[i])
  IN  ~AllCapsRule(s) /\ ~EnumeratedRule(s) /\ ~DecimalRule(s)

\* ceil(0.6 * n)
ceil_06(n) == (6 * n + 9) \div 10

\* the title-case rule as the specification words it
TitleCaseCeil(s) ==
  LET words == split(s)
  IN  /\ 1 <= Len(words) /\ Len(words) <= TITLE_MAX_WORDS
      /\ CapsCount(words) >= max(2, ceil_06(Len(words)))

\* C4: a first line that matches none of the all-caps, enumerated and
\* decimal-numbered rules is taken as a heading if and only if it has 1 to 12
\* words of which at least max(2, ceil(0.6 * word count)) start with a capital.
C4_TitleCaseCeil ==
  \A i \in 1..Len(kinds) :
     OnlyTitleCase(i) =>
        (kinds[i] = "heading" <=> TitleCaseCeil(FirstLine(blocks[i])))

\* the letters of s are all capitals and s is longer than HEADING_MAX_LEN
LongAllCaps(s) ==
  /\ letters(s) # {}
  /\ \A i \in letters(s) : isupper(Char(s, i))
  /\ Len(s) > HEADING_MAX_LEN

\* C5: a block whose first line is all capitals and longer than 90 characters
\* is never taken as a heading: it opens no section and is paragraph text.
C5_LongCapsNeverHeading ==
  \A i \in 1..Len(kinds) :
     LongAllCaps(FirstLine(blocks[i])) => kinds[i] = "continuation"

RECURSIVE WordsOfLines(_)
WordsOfLines(lines) ==
  IF lines = << >> THEN << >> ELSE split(lines[1]) \o WordsOfLines(Tail(lines))

\* the words of the lines, in source order, a single space between them
ParagraphOfLines(lines) == join(" ", WordsOfLines(lines))

LastOf(seq) == seq[Len(seq)]

\* C6: if the first block is a continuation block, the first returned section
\* has the heading "Introduction" and that block's text as its first paragraph;
\* the fold puts the default heading only while no heading-start block has been
\* seen: afterwards the current heading is that of the last heading-start block.
C6_DefaultHeading ==
  /\ (pc = "done" /\ LeadingProse) =>
        /\ result # << >>
        /\ result[1].heading = Some("Introduction")
        /\ result[1].paragraphs # << >>
        /\ result[1].paragraphs[1] = ParagraphOfLines(blocks[1])
  /\ (pc = "fold" /\ bi > 1) =>
        current_section.heading =
          IF HeadingStarts = << >> THEN Some("Introduction")
          ELSE Some(join(" ", split(blocks[LastOf(HeadingStarts)][1])))

\* C6 witness: leading prose was returned under "Introduction", and a later
\* continuation block followed a heading-start block.
C6_Witness ==
  /\ pc = "done"
  /\ LeadingProse
  /\ result[1].heading = Some("Introduction")
  /\ \E i, j \in 1..Len(kinds) :
        i < j /\ kinds[i] = "heading" /\ kinds[j] = "continuation"

\* a bound on the steps build_sections has left
StepsLeft ==
  CASE pc = "start" -> 2 * Len(text) + 5
    [] pc = "fold"  -> 2 * (Len(blocks) - bi + 1) + Len(sections) + 3
    [] pc = "clean" -> Len(sections) - si + 2
    [] OTHER        -> 0

\* C7: build_sections is total: it never raises, short of its return it always
\* has a next step, every step brings the return nearer (so it terminates),
\* and for an empty or all-blank text it returns the empty list.
C7_Total ==
  /\ [](pc # "raised")
  /\ [](pc = "done" \/ AtEntry \/ InFold \/ FoldOver \/ InClean \/ CleanOver)
  /\ [][StepsLeft' < StepsLeft /\ StepsLeft' >= 0]_vars
  /\ []((pc = "done" /\ Blank(text)) => result = << >>)

\* C7 witness: a text of blank lines only has been segmented.
C7_Witness ==
  /\ pc = "done"
  /\ text # ""
  /\ Blank(text)
  /\ result = << >>

AllIn(s, cls) == s # "" /\ \A i \in 1..Len(s) : Char(s, i) \in cls

\* s continues, from position i, with whitespace and then text
SpaceAndText(s, i) ==
  /\ i <= Len(s) /\ isspace(Char(s, i))
  /\ \E j \in (i + 1)..Len(s) : ~isspace(Char(s, j))

\* <digits | capitals of I V X L C | one capital><"." or ")"><space><text>
EnumeratedForm(s) ==
  \E k \in 1..Len(s) :
     LET num == SubSeq(s, 1, k)
     IN  /\ \/ AllIn(num, DigitChars)
            \/ AllIn(num, CharsOf("IVXLC"))
            \/ k = 1 /\ num \in UpperChars
         /\ k + 1 <= Len(s) /\ Char(s, k + 1) \in { ".", ")" }
         /\ SpaceAndText(s, k + 2)

\* digits, each "." between two digits
DottedDigits(num) ==
  /\ AllIn(num, DigitChars \cup { "." })
  /\ \A i \in 1..Len(num) :
        Char(num, i) = "." =>
           /\ 1 < i /\ i < Len(num)
           /\ isdigit(Char(num, i - 1)) /\ isdigit(Char(num, i + 1))

\* <digits>(.<digits>)*<space><text>
DecimalForm(s) ==
  \E k \in 1..Len(s) : DottedDigits(SubSeq(s, 1, k)) /\ SpaceAndText(s, k + 1)

NumberedForm(s) == EnumeratedForm(s) \/ DecimalForm(s)

\* the enumerated example of the specification
ExampleEnumerated == "1. Overview\nThis is the first section."

\* C8 as stated: a block whose first line has the enumerated or the
\* decimal-numbered form opens a section that is returned with that line (its
\* whitespace runs collapsed) as heading and the block's remaining lines as
\* first paragraph.
C8_NumberedVerbatim ==
  pc = "done" =>
    \A i \in 1..Len(blocks) :
       NumberedForm(FirstLine(blocks[i])) =>
          /\ kinds[i] = "heading"
          /\ \E n \in 1..Len(result) :
                /\ result[n].heading = Some(collapse_ws(FirstLine(blocks[i])))
                /\ Len(blocks[i]) > 1 =>
                      /\ result[n].paragraphs # << >>
                      /\ result[n].paragraphs[1] = ParagraphOfLines(Tail(blocks[i]))

\* C8 amended: a block whose first line has the enumerated form (digits, or
\* capitals of I V X L C, or one capital letter; then "." or ")", whitespace,
\* text) or the decimal-numbered form opens a new section: the fold gives it
\* that line, whitespace runs collapsed, as heading and the remaining lines of
\* the block as its first paragraph. Unless the heading is a navigation crumb
\* the section is returned, its heading cleaned up (title-cased) and its first
\* paragraph unchanged; the example returns heading "1. Overview" with
\* paragraph "This is the first section.".
C8_NumberedHeading ==
  /\ \A i \in 1..Len(kinds) :
        NumberedForm(FirstLine(blocks[i])) => kinds[i] = "heading"
  /\ (pc = "fold" /\ bi > 1 /\ NumberedForm(FirstLine(blocks[bi - 1]))) =>
        current_section =
          Section(Some(join(" ", split(blocks[bi - 1][1]))),
                  IF Len(blocks[bi - 1]) > 1
                    THEN << ParagraphOfLines(Tail(blocks[bi - 1])) >>
                    ELSE << >>)
  /\ pc = "done" =>
        /\ \A j \in 1..Len(Opened) :
              (Opened[j] # 0 /\ NumberedForm(FirstLine(blocks[Opened[j]]))
                 /\ ~is_nav_crumb(RawHeading(j))) =>
                 \E n \in 1..Len(result) :
                    /\ Kept[n] = j
                    /\ result[n].heading # None
                    /\ CleanedFrom(result[n].heading[1], RawHeading(j))
                    /\ Len(blocks[Opened[j]]) > 1 =>
                          /\ result[n].paragraphs # << >>
                          /\ result[n].paragraphs[1] =
                               ParagraphOfLines(Tail(blocks[Opened[j]]))
        /\ text = ExampleEnumerated =>
              result = << Section(Some("1. Overview"),
                                  << "This is the first section." >>) >>

\* C8 witness: texts with an enumerated and with a decimal-numbered first line
\* have been segmented, the heading title-cased, the second line the paragraph.
C8_Witness ==
  /\ pc = "done"
  /\ Len(result) = 1
  /\ Len(blocks) = 1 /\ Len(blocks[1]) = 2
  /\ DecimalForm(FirstLine(blocks[1])) /\ ~EnumeratedForm(FirstLine(blocks[1]))
  /\ result[1].heading # Some(RawHeading(1))
  /\ result[1].paragraphs = << "This is the first section." >>

AllParagraphs ==
  { current_section.paragraphs[i] : i \in 1..Len(current_section.paragraphs) } \cup
  UNION { { sec.paragraphs[i] : i \in 1..Len(sec.paragraphs) } :
            sec \in { sections[k] : k \in 1..Len(sections) } \cup
                    { cleaned_sections[k] : k \in 1..Len(cleaned_sections) } \cup
                    { result[k] : k \in 1..Len(result) } }

WhitespaceNormalized(p) ==
  /\ p # ""
  /\ ~isspace(Char(p, 1)) /\ ~isspace(Char(p, Len(p)))
  /\ \A i \in 1..Len(p) : Char(p, i) \notin LineBreaks
  /\ \A i \in 1..(Len(p) - 1) : ~(isspace(Char(p, i)) /\ isspace(Char(p, i + 1)))

\* the lines of block i that become paragraph text
BodyLines(i) == IF kinds[i] = "heading" THEN Tail(blocks[i]) ELSE blocks[i]

\* C9: every paragraph build_sections holds or returns is whitespace-
\* normalized (non-empty, no leading or trailing whitespace, no line break, no
\* run of two whitespace characters), and the paragraph a block adds is the
\* block's lines joined by single spaces in source order.
C9_ParagraphsNormalized ==
  /\ \A p \in AllParagraphs : WhitespaceNormalized(p)
  /\ (pc = "fold" /\ bi > 1 /\ BodyLines(bi - 1) # << >>) =>
        /\ current_section.paragraphs # << >>
        /\ LastOf(current_section.paragraphs) = ParagraphOfLines(BodyLines(bi - 1))

\* C9 witness: a returned paragraph joins two lines that held tabs, runs of
\* spaces and leading and trailing whitespace.
C9_Witness ==
  /\ pc = "done"
  /\ \E n \in 1..Len(result) :
        \E k \in 1..Len(result[n].paragraphs) :
           result[n].paragraphs[k] = "the quick brown fox Jumps Over"

(***************************************************************************)
(* C10: sync_modules is idempotent                                         *)
(***************************************************************************)

\* the content of ROOT: its files and the files of its directories
FileSystem == << rootFiles, dirFiles >>

\* the PDFs that lie in ROOT
RootPdfs == { n \in DOMAIN rootFiles : is_root_pdf(n) }

\* the modules whose PDF came from ROOT in a run: its content is the content
\* of a file of ROOT
MovedIn ==
  { d \in DOMAIN dirFiles :
      /\ (d \o ".pdf") \in DOMAIN dirFiles[d]
      /\ dirFiles[d][d \o ".pdf"] \in NamePool }

\* C10: a run of main that starts on the file system a successful run left,
\* with the same flag, does not raise and none of its steps changes the file
\* system: no PDF leaves ROOT, no directory is created, no index.html of a
\* module changes and the root index.html is written with the content it had.
C10_Idempotent ==
  /\ [](runs >= 2 => spc # "raised")
  /\ [][runs >= 2 => FileSystem' = FileSystem]_vars

\* a second run has finished after a first one that moved a PDF into its
\* module, left another PDF in ROOT and wrote an index.html for the module
C10_Witness ==
  /\ runs = 2
  /\ spc = "done"
  /\ RootPdfs # {}
  /\ \E d \in MovedIn : d \in Range(modules) /\ exists(d, "index.html")

(***************************************************************************)
(* C11: headings and paragraph lists over the steps of build_sections      *)
(***************************************************************************)

IsPrefix(a, b) == Len(a) <= Len(b) /\ SubSeq(b, 1, Len(a)) = a

\* the section objects build_sections holds, in the order it made them: the
\* list and, while the fold runs, the section being filled
Objects ==
  IF pc = "fold" THEN Append(sections, current_section)
  ELSE IF pc = "clean" THEN sections ELSE << >>

\* the sections that are kept: the list the clean-up builds, then the result
Returned ==
  IF pc = "clean" THEN cleaned_sections
  ELSE IF pc = "done" THEN result ELSE << >>

\* section o has become n: an assigned heading stays, paragraphs are appended
Evolves(o, n) ==
  /\ Truthy(o.heading) => n.heading = o.heading
  /\ IsPrefix(o.paragraphs, n.paragraphs)

\* C11 as stated: in every step of build_sections, up to the return, every
\* section keeps the heading it has been assigned and its paragraph list only
\* grows at the end.
C11_HeadingImmutable ==
  [][ /\ \A i \in 1..Len(Objects) :
           i <= Len(Objects') => Evolves(Objects[i], Objects'[i])
      /\ \A i \in 1..Len(Returned) :
           i <= Len(Returned') /\ Evolves(Returned[i], Returned'[i]) ]_vars

\* C11: while the fold runs and when it closes its last section, a section
\* that holds anything stays, keeps the heading it has been assigned and its
\* paragraph list only grows at the end. The clean-up loop then rewrites the heading of the section it
\* visits, once, to its cleaned form (a section it drops keeps its heading);
\* it changes no other section and no paragraph list, the list of kept
\* sections only grows at the end, and the return hands out that list as it is.
C11_HeadingAssignedOnce ==
  [][ /\ pc = "fold" =>
           \A i \in 1..Len(Objects) :
              /\ HasContent(Objects[i]) => i <= Len(Objects')
              /\ i <= Len(Objects') => Evolves(Objects[i], Objects'[i])
      /\ (pc = "clean" /\ pc' = "clean") =>
           /\ Len(sections') = Len(sections)
           /\ si' = si + 1
           /\ \A i \in 1..Len(sections) :
                 /\ sections'[i].paragraphs = sections[i].paragraphs
                 /\ i # si => sections'[i] = sections[i]
           /\ LET old == sections[si].heading
                  new == sections'[si].heading
              IN  IF Truthy(old) /\ ~is_nav_crumb(strip(old[1]))
                    THEN new # None /\ CleanedFrom(new[1], old[1])
                    ELSE new = old
           /\ IsPrefix(cleaned_sections, cleaned_sections')
           /\ Len(cleaned_sections') <= Len(cleaned_sections) + 1
           /\ Len(cleaned_sections') > Len(cleaned_sections) =>
                 LastOf(cleaned_sections') = sections'[si]
      /\ (pc = "clean" /\ pc' = "done") => result' = cleaned_sections ]_vars

\* C11 witness: a returned section has the heading "Eligibility", which the
\* fold had assigned as "ELIGIBILITY", and two paragraphs the fold appended
\* one after the other.
C11_Witness ==
  /\ pc = "done"
  /\ \E n \in 1..Len(result) :
        /\ result[n].heading = Some("Eligibility")
        /\ result[n].paragraphs = << "Some text here.", "the quick brown fox Jumps Over" >>

(***************************************************************************)
(* C12: only the first line of a block is classified                       *)
(***************************************************************************)

\* the lines of block b after the first that is_heading takes for a heading
EmbeddedHeadings(b) == { k \in 2..Len(b) : is_heading(strip(b[k])) }

\* the words ws stand next to each other, in order, in paragraph p
ContainsWords(p, ws) ==
  \E off \in 0..(Len(split(p)) - Len(ws)) :
     SubSeq(split(p), off + 1, off + Len(ws)) = ws

\* the sections the fold has made so far
SectionsSoFar == Len(sections) + (IF HasContent(current_section) THEN 1 ELSE 0)

\* C12: a folded block counts as a heading start exactly when its first line
\* is a heading; the fold has as many sections as heading starts (one more for
\* leading prose), never more than blocks folded; a later line of a block
\* that is_heading would take for a heading is, words and order kept, inside
\* the paragraph the block adds; and no more sections are returned than the
\* text has blocks.
C12_FirstLineOnly ==
  /\ pc = "fold" =>
        /\ \A i \in 1..Len(kinds) :
              kinds[i] = "heading" <=> is_heading(FirstLine(blocks[i]))
        /\ SectionsSoFar = Len(Opened)
        /\ SectionsSoFar <= bi - 1
  /\ (pc = "fold" /\ bi > 1) =>
        \A k \in EmbeddedHeadings(blocks[bi - 1]) :
           /\ current_section.paragraphs # << >>
           /\ ContainsWords(LastOf(current_section.paragraphs),
                            split(blocks[bi - 1][k]))
  /\ pc = "clean" => Len(sections) <= Len(blocks)
  /\ pc = "done" => Len(result) <= Len(blocks)

\* C12 witness: two blocks, each with two later lines that is_heading takes
\* for headings, give two sections that hold those lines as paragraph text.
C12_Witness ==
  /\ pc = "done"
  /\ Len(blocks) = 2
  /\ \A i \in 1..2 : Cardinality(EmbeddedHeadings(blocks[i])) = 2
  /\ result = << Section(Some("Introduction"), << "Some text here. ELIGIBILITY 2.1 Definitions" >>),
                 Section(Some("Scope"), << "A. Scope Quick Fox" >>) >>

(***************************************************************************)
(* C13: navigation crumbs                                                  *)
(***************************************************************************)

\* sub occurs in s
Contains(s, sub) ==
  \E i \in 1..(Len(s) - Len(sub) + 1) : SubSeq(s, i, i + Len(sub) - 1) = sub

\* a heading of the form "Previous: X Next: Y": it contains both "Previous:"
\* and "Next:"
CrumbForm(h) == Contains(h, "Previous:") /\ Contains(h, "Next:")

\* C13: every section whose heading contains both "Previous:" and "Next:" is
\* dropped: the fold's sections with such a heading are not among the kept
\* sections, and no returned section has such a heading.
C13_CrumbsDropped ==
  /\ pc = "done" =>
        \A j \in 1..Len(Opened) :
           CrumbForm(RawHeading(j)) => \A k \in 1..Len(Kept) : Kept[k] # j
  /\ pc = "done" =>
        \A n \in 1..Len(result) :
           ~ (Truthy(result[n].heading) /\ CrumbForm(result[n].heading[1]))

(***************************************************************************)
(* C14: the online loop of process_slug                                    *)
(***************************************************************************)

\* content parses as JSON and is an object with the top-level key name
ValidObject(content, name) ==
  LET r == json_loads(content)
  IN  /\ r.ok
      /\ r.val.kind = "object"
      /\ \E i \in 1..Len(r.val.members) : r.val.members[i][1] = name

\* <slug>/data/<name>.json: None when it is not there
FileOf(files, name) == IF name \in DOMAIN files THEN Some(files[name]) ELSE None

\* C14: online, call_openai is called for questions, terms, scenarios in that
\* order; <slug>/data/<name>.json is created or modified only by the
\* validation of the response for that name and only if the response parses
\* as JSON and is an object with the top-level key <name>; any other response
\* ends the run with SystemExit, leaving every file as it is, and after the
\* end of the run no call is made and no file is touched.
C14_ValidatedWrites ==
  /\ [](gpc # "TypeError")
  /\ [](calls = SubSeq(NAMES, 1, Len(calls)))
  /\ [][ /\ \A k \in 1..Len(NAMES) :
              FileOf(data_files', NAMES[k]) # FileOf(data_files, NAMES[k]) =>
                 gpc = "validate" /\ k = ni /\ ValidObject(response, NAMES[k])
         /\ (gpc = "validate" /\ ~ValidObject(response, NAMES[ni])) =>
               gpc' = "SystemExit" /\ data_files' = data_files
         /\ gpc \in { "SystemExit", "done" } =>
               calls' = calls /\ data_files' = data_files ]_vars

(***************************************************************************)
(* C15: sync_modules without --stamp-index overwrites nothing              *)
(***************************************************************************)

\* the slug a root PDF maps to
SlugOf(name) == slugify(clean_title_from_filename(name))

\* directory d has the file f
Has(dirs, d, f) == d \in DOMAIN dirs /\ f \in DOMAIN dirs[d]

\* the pages main writes for module d
WrittenPages(d) ==
  { bootstrap_index_html,
    build_placeholder_html(display_title_from_title(clean_title_from_filename(d))) }

\* C15: without --stamp-index no step of main removes or changes a file that
\* is in a directory of ROOT, so a <slug>/<slug>.pdf and a <slug>/index.html
\* that are there stay as they are; a root PDF whose <slug>/<slug>.pdf is
\* there stays in ROOT; and an index.html appears only in step 2, in a module
\* directory (one that has its PDF) that had none, as one of the two pages
\* main writes.
C15_NoOverwrite ==
  [][ ~ stamp_index =>
        /\ \A d \in DOMAIN dirFiles :
              /\ d \in DOMAIN dirFiles'
              /\ \A f \in DOMAIN dirFiles[d] :
                    f \in DOMAIN dirFiles'[d] /\ dirFiles'[d][f] = dirFiles[d][f]
        /\ \A n \in RootPdfs :
              exists(SlugOf(n), SlugOf(n) \o ".pdf") =>
                 n \in DOMAIN rootFiles' /\ rootFiles'[n] = rootFiles[n]
        /\ \A d \in DOMAIN dirFiles' :
              (Has(dirFiles', d, "index.html") /\ ~ Has(dirFiles, d, "index.html")) =>
                 /\ spc = "index"
                 /\ Has(dirFiles, d, d \o ".pdf")
                 /\ dirFiles'[d]["index.html"] \in WrittenPages(d) ]_vars

\* C15 witness: a run without --stamp-index has finished; a-and-b.pdf is
\* still in ROOT, the PDF and the index.html that were in a-and-b are as they
\* were, and another module, whose PDF the run moved in, got its index.html.
C15_Witness ==
  /\ ~ stamp_index
  /\ spc = "done"
  /\ "a-and-b.pdf" \in DOMAIN rootFiles
  /\ Has(dirFiles, "a-and-b", "a-and-b.pdf")
  /\ Has(dirFiles, "a-and-b", "index.html")
  /\ dirFiles["a-and-b"]["a-and-b.pdf"] = "earlier a-and-b.pdf"
  /\ dirFiles["a-and-b"]["index.html"] = "earlier index.html"
  /\ \E d \in MovedIn :
        Has(dirFiles, d, "index.html") /\ dirFiles[d]["index.html"] \in WrittenPages(d)


====
